---- MODULE Spec2Model ----
(***************************************************************************)
(* Model of the digest crate (src/lib.rs): the Digestable protocol and its *)
(* built-in implementations (String, f64, pairs), the feeding loop of      *)
(* DigestSha256::from_digestable, and DigestSha256::from_str.              *)
(***************************************************************************)
EXTENDS Integers, Sequences, FiniteSets, TLC

\* ------------------------------------------------------------------------
\* Bounds of the model
\* ------------------------------------------------------------------------
\* longest text value drawn as an input
MaxTextLen == 2
\* number of spans one call may feed before the model stops following it
MaxFeeds == 4
\* number of bytes of the digest array in the hex-parsing model
DigestLen == 1

\* the two from_digestable calls that are followed
Calls == {1, 2}

\* bytes text values are made of ('a', 'b')
TextBytes == {97, 98}

None == <<>>
Some(x) == <<x>>

\* ------------------------------------------------------------------------
\* Values
\* ------------------------------------------------------------------------
\* A String is its UTF-8 byte vector.
Text(bs) == [kind |-> "text", bytes |-> bs]
\* An f64 is its IEEE-754 bit pattern, as four 16-bit words, least
\* significant word first.
F64(ws) == [kind |-> "f64", bits |-> ws]
Pair(a, b) == [kind |-> "pair", fst |-> a, snd |-> b]

SeqsUpTo(S, n) == UNION {[1..k -> S] : k \in 0..n}

Texts == {Text(bs) : bs \in SeqsUpTo(TextBytes, MaxTextLen)}
\* 0.0003 (0x3F33A92A30553261) and 0.003 (0x3F689374BC6A7EFA)
Floats == {F64(<<12897, 12373, 43306, 16179>>), F64(<<32506, 48234, 37748, 16232>>)}
Leaves == Texts \cup Floats
Pairs == {Pair(a, b) : a \in Leaves, b \in Leaves}
Nested == {Pair(p, l) : p \in Pairs, l \in Leaves} \cup {Pair(l, p) : l \in Leaves, p \in Pairs}
Values == Leaves \cup Pairs \cup Nested

\* ------------------------------------------------------------------------
\* Byte encodings
\* ------------------------------------------------------------------------
\* String::as_bytes: the stored bytes, borrowed
AsBytes(s) == s.bytes

\* byte k (0 = least significant) of a 64-bit pattern
ByteOf(ws, k) == IF k % 2 = 0 THEN ws[(k \div 2) + 1] % 256 ELSE ws[(k \div 2) + 1] \div 256

\* f64::to_be_bytes: most significant byte first
ToBeBytes(x) == [i \in 1..8 |-> ByteOf(x.bits, 8 - i)]

\* ------------------------------------------------------------------------
\* Iterators
\* ------------------------------------------------------------------------
\* std::iter::once(span)
Once(span) == [kind |-> "once", item |-> Some(span)]
OwnedOnce(bytes, ref) == [kind |-> "owned", slice |-> bytes, slice_ref |-> ref]
\* a.chain(b)
Chain(ia, ib) == [kind |-> "chain", a |-> Some(ia), b |-> Some(ib)]

\* Result of one next(): the item (None at the end) and the iterator after.
Step(item, it) == [item |-> item, it |-> it]

OnceNext(it) == Step(it.item, [it EXCEPT !.item = None])

\* OwnedOnce::next: stores the reference to its buffer and returns it
OwnedOnceNext(it) == Step(Some(it.slice), [it EXCEPT !.slice_ref = Some(it.slice)])

RECURSIVE IterNext(_)

\* Chain::next: the first iterator until it returns None (it is then
\* dropped), the second one afterwards
ChainNext(it) ==
    LET ra == IF it.a = None THEN Step(None, it) ELSE IterNext(it.a[1])
    IN  IF it.a # None /\ ra.item # None
        THEN Step(ra.item, [it EXCEPT !.a = Some(ra.it)])
        ELSE IF it.b = None THEN Step(None, [it EXCEPT !.a = None])
             ELSE LET rb == IterNext(it.b[1])
                  IN  Step(rb.item, [it EXCEPT !.a = None, !.b = Some(rb.it)])

IterNext(it) ==
    CASE it.kind = "once"  -> OnceNext(it)
      [] it.kind = "owned" -> OwnedOnceNext(it)
      [] it.kind = "chain" -> ChainNext(it)

\* ------------------------------------------------------------------------
\* Digestable implementations
\* ------------------------------------------------------------------------
StringDigestableTruncated(s) == Once(SubSeq(AsBytes(s), 1, Len(AsBytes(s)) - 1))
\* impl Digestable for String
StringDigestable(s) == Once(AsBytes(s))

\* impl Digestable for f64
F64Digestable(x) == OwnedOnce(ToBeBytes(x), None)

RECURSIVE Digestable(_)

\* a separator span between the two constituents
PairDigestableSep(p) == Chain(Chain(Digestable(p.fst), Once(<<0>>)), Digestable(p.snd))
\* impl Digestable for (A, B)
PairDigestable(p) == Chain(Digestable(p.fst), Digestable(p.snd))

Digestable(v) ==
    CASE v.kind = "text" -> StringDigestable(v)
      [] v.kind = "f64"  -> F64Digestable(v)
      [] v.kind = "pair" -> PairDigestable(v)

\* ------------------------------------------------------------------------
\* Hash primitive (sha2::Sha256), idealised as collision-free: the
\* accumulator is the byte stream absorbed so far and the output is an
\* injective image of it.
\* ------------------------------------------------------------------------
Sha256New == <<>>
Sha256UpdateDropped(h, span) == h
Sha256Update(h, span) == h \o span
Sha256Finalize(h) == [sha256 |-> h]

\* ------------------------------------------------------------------------
\* State
\* ------------------------------------------------------------------------
VARIABLES
    val,      \* val[c]: the value call c borrows
    pc,       \* pc[c]: position of call c in from_digestable
    iter,     \* iter[c]: the iterator returned by val.digestable()
    hasher,   \* hasher[c]: the accumulator local to call c
    result,   \* result[c]: the DigestSha256 returned (None before)
    fed,      \* fed[c]: the spans passed to update so far, in order
    text,     \* the string given to from_str
    hpc,      \* position of the from_str scenario
    parsed,   \* from_str(text) (None before the call)
    parsed_upper  \* from_str(text.to_uppercase()) (None before the call)

cvars == <<val, pc, iter, hasher, result, fed>>
hvars == <<text, hpc, parsed, parsed_upper>>
vars == <<val, pc, iter, hasher, result, fed, text, hpc, parsed, parsed_upper>>

InitCall(v1, v2, pc2) ==
    /\ val = <<v1, v2>>
    /\ pc = <<"start", pc2>>
    /\ iter = <<None, None>>
    /\ hasher = <<None, None>>
    /\ result = <<None, None>>
    /\ fed = <<<<>>, <<>>>>

NoCall ==
    /\ val = <<Text(<<>>), Text(<<>>)>>
    /\ pc = <<"idle", "idle">>
    /\ iter = <<None, None>>
    /\ hasher = <<None, None>>
    /\ result = <<None, None>>
    /\ fed = <<<<>>, <<>>>>

InitParse(s, p) ==
    /\ text = s
    /\ hpc = p
    /\ parsed = None
    /\ parsed_upper = None

\* one call of from_digestable
Init == (\E v \in Values : InitCall(v, Text(<<>>), "idle")) /\ InitParse(<<>>, "idle")

\* lines 18-19: Sha256::new() and val.digestable()
Begin(c) ==
    /\ pc[c] = "start"
    /\ pc' = [pc EXCEPT ![c] = "loop"]
    /\ hasher' = [hasher EXCEPT ![c] = Some(Sha256New)]
    /\ iter' = [iter EXCEPT ![c] = Some(Digestable(val[c]))]
    /\ UNCHANGED <<val, result, fed>>
    /\ UNCHANGED hvars

FeedShared(c) ==
    /\ pc[c] = "loop"
    /\ Len(fed[c]) < MaxFeeds
    /\ LET r == IterNext(iter[c][1])
       IN  /\ r.item # None
           /\ iter' = [iter EXCEPT ![c] = Some(r.it)]
           /\ hasher' = [d \in Calls |->
                           IF hasher[d] = None THEN None
                           ELSE Some(Sha256Update(hasher[d][1], r.item[1]))]
           /\ fed' = [fed EXCEPT ![c] = Append(@, r.item[1])]
    /\ UNCHANGED <<val, pc, result>>
    /\ UNCHANGED hvars
\* lines 19-21: next() returned Some(v); hasher.update(v)
Feed(c) ==
    /\ pc[c] = "loop"
    /\ Len(fed[c]) < MaxFeeds
    /\ LET r == IterNext(iter[c][1])
       IN  /\ r.item # None
           /\ iter' = [iter EXCEPT ![c] = Some(r.it)]
           /\ hasher' = [hasher EXCEPT ![c] = Some(Sha256Update(@[1], r.item[1]))]
           /\ fed' = [fed EXCEPT ![c] = Append(@, r.item[1])]
    /\ UNCHANGED <<val, pc, result>>
    /\ UNCHANGED hvars

\* line 19: next() returned None, the loop ends
Exhaust(c) ==
    /\ pc[c] = "loop"
    /\ LET r == IterNext(iter[c][1])
       IN  /\ r.item = None
           /\ iter' = [iter EXCEPT ![c] = Some(r.it)]
    /\ pc' = [pc EXCEPT ![c] = "finalize"]
    /\ UNCHANGED <<val, hasher, result, fed>>
    /\ UNCHANGED hvars

\* lines 22-23: hasher.finalize(), wrapped as DigestSha256
Finalize(c) ==
    /\ pc[c] = "finalize"
    /\ result' = [result EXCEPT ![c] = Some(Sha256Finalize(hasher[c][1]))]
    /\ pc' = [pc EXCEPT ![c] = "done"]
    /\ UNCHANGED <<val, iter, hasher, fed>>
    /\ UNCHANGED hvars

\* from_digestable run from its first to its last line with no other call
\* in between (None when the loop has not ended after MaxFeeds spans)
RECURSIVE Drain(_, _, _)
Drain(it, h, fuel) ==
    LET r == IterNext(it)
    IN  IF r.item = None THEN Some(Sha256Finalize(h))
        ELSE IF fuel = 0 THEN None
        ELSE Drain(r.it, Sha256Update(h, r.item[1]), fuel - 1)

FromDigestable(v) == Drain(Digestable(v), Sha256New, MaxFeeds)

Next == \E c \in Calls : Begin(c) \/ Feed(c) \/ Exhaust(c) \/ Finalize(c)

Spec == Init /\ [][Next]_vars

\* ------------------------------------------------------------------------
\* Two calls of from_digestable, their steps interleaved in any order
\* ------------------------------------------------------------------------
ShortTexts == {t \in Texts : Len(t.bytes) <= 1}
Letters == {t \in Texts : Len(t.bytes) = 1}
TwoFloat == F64(<<32506, 48234, 37748, 16232>>)
TwoLeaves == Texts \cup {TwoFloat}
TwoPairs ==
    {Pair(a, b) : a \in ShortTexts \cup {TwoFloat}, b \in ShortTexts \cup {TwoFloat}}
    \cup {p \in {Pair(a, b) : a \in Texts, b \in Texts} :
            Len(p.fst.bytes) + Len(p.snd.bytes) <= MaxTextLen + 1}
TwoNested ==
    {Pair(Pair(a, b), c) : a \in Letters, b \in Letters, c \in Letters}
    \cup {Pair(a, Pair(b, c)) : a \in Letters, b \in Letters, c \in Letters}
TwoValues == TwoLeaves \cup TwoPairs \cup TwoNested

InitTwo ==
    /\ \E v1 \in TwoValues, v2 \in TwoValues : InitCall(v1, v2, "start")
    /\ InitParse(<<>>, "idle")

SpecTwo == InitTwo /\ [][Next]_vars

\* ------------------------------------------------------------------------
\* DigestSha256::from_str
\* ------------------------------------------------------------------------
\* characters (ASCII codes) the input strings are made of: the ends of the
\* three hex digit ranges and their neighbours  / 0 9 : @ A F G ` a f g
HexAlphabet == {47, 48, 57, 58, 64, 65, 70, 71, 96, 97, 102, 103}
HexTexts == SeqsUpTo(HexAlphabet, 2 * DigestLen + 1)

Ok(d) == [ok |-> TRUE, digest |-> d]
Err(e) == [ok |-> FALSE, err |-> e]

HexValLowerOnly(c) ==
    CASE c \in 97..102 -> Some(c - 97 + 10)
      [] c \in 48..57  -> Some(c - 48)
      [] OTHER         -> None
\* hex: val(c, idx), None for InvalidHexCharacter
HexVal(c) ==
    CASE c \in 65..70  -> Some(c - 65 + 10)
      [] c \in 97..102 -> Some(c - 97 + 10)
      [] c \in 48..57  -> Some(c - 48)
      [] OTHER         -> None

\* the loop of hex::decode_to_slice from byte i on: out[i] is written only
\* when both digits are valid
RECURSIVE DecodeLoop(_, _, _)
DecodeLoop(s, out, i) ==
    IF i > Len(out) THEN [err |-> None, out |-> out]
    ELSE LET hi == HexVal(s[2 * i - 1])
             lo == HexVal(s[2 * i])
         IN  IF hi = None
             THEN [err |-> Some(<<"InvalidHexCharacter", 2 * i - 2>>), out |-> out]
             ELSE IF lo = None
             THEN [err |-> Some(<<"InvalidHexCharacter", 2 * i - 1>>), out |-> out]
             ELSE DecodeLoop(s, [out EXCEPT ![i] = (hi[1] * 16 + lo[1]) % 256], i + 1)

\* hex::decode_to_slice(s, &mut out)
DecodeToSlice(s, out) ==
    IF Len(s) % 2 # 0 THEN [err |-> Some(<<"OddLength">>), out |-> out]
    ELSE IF Len(s) \div 2 # Len(out) THEN [err |-> Some(<<"InvalidStringLength">>), out |-> out]
    ELSE DecodeLoop(s, out, 1)

\* GenericArray::default()
DefaultArray == [i \in 1..DigestLen |-> 0]

FromStrIgnoreErr(s) == Ok(DecodeToSlice(s, DefaultArray).out)
\* from_str, lines 30-35
FromStr(s) ==
    LET r == DecodeToSlice(s, DefaultArray)
    IN  IF r.err # None THEN Err(r.err[1]) ELSE Ok(r.out)

\* str::to_uppercase on ASCII text
ToUpper(s) == [i \in 1..Len(s) |-> IF s[i] \in 97..122 THEN s[i] - 32 ELSE s[i]]

InitHex == NoCall /\ \E s \in HexTexts : InitParse(s, "lower")

FromStrCall ==
    /\ hpc = "lower"
    /\ parsed' = Some(FromStr(text))
    /\ hpc' = "upper"
    /\ UNCHANGED <<text, parsed_upper>>
    /\ UNCHANGED cvars

FromStrUpperCall ==
    /\ hpc = "upper"
    /\ parsed_upper' = Some(FromStr(ToUpper(text)))
    /\ hpc' = "done"
    /\ UNCHANGED <<text, parsed>>
    /\ UNCHANGED cvars

NextHex == FromStrCall \/ FromStrUpperCall

SpecHex == InitHex /\ [][NextHex]_vars

\* ------------------------------------------------------------------------
\* Properties
\* ------------------------------------------------------------------------
IsPrefix(s, t) == Len(s) <= Len(t) /\ SubSeq(t, 1, Len(s)) = s

\* number of scalar fields of a value
RECURSIVE LeafCount(_)
LeafCount(v) == IF v.kind = "pair" THEN LeafCount(v.fst) + LeafCount(v.snd) ELSE 1

\* big-endian encoding of a 64-bit pattern, written out byte by byte
BigEndian8(x) ==
    << x.bits[4] \div 256, x.bits[4] % 256, x.bits[3] \div 256, x.bits[3] % 256,
       x.bits[2] \div 256, x.bits[2] % 256, x.bits[1] \div 256, x.bits[1] % 256 >>

\* the span sequence of a value: one span per scalar, fields left to right
RECURSIVE Spans(_)
Spans(v) ==
    CASE v.kind = "text" -> <<v.bytes>>
      [] v.kind = "f64"  -> <<BigEndian8(v)>>
      [] v.kind = "pair" -> Spans(v.fst) \o Spans(v.snd)

RECURSIVE Flatten(_)
Flatten(ss) == IF ss = <<>> THEN <<>> ELSE Head(ss) \o Flatten(Tail(ss))

\* the bytes of a value, its spans concatenated
ByteStream(v) == Flatten(Spans(v))

Ended(c) == pc[c] \in {"finalize", "done"}
BothDone == pc[1] = "done" /\ pc[2] = "done"

\* C1: from_digestable terminates: the span sequence of a value is finite,
\* a call never obtains more spans than the value has scalar fields, after
\* which next() reports the end and the loop is left.
C1_Terminates == \A c \in Calls : Len(fed[c]) <= LeafCount(val[c])

\* C2: the span sequence of an f64 has exactly one element, its 8-byte
\* big-endian encoding: the first next() yields it, every later next()
\* yields None.
C2_F64SingleSpan ==
    \A c \in Calls :
        (val[c].kind = "f64" /\ pc[c] = "loop") =>
            IterNext(iter[c][1]).item =
                (IF fed[c] = <<>> THEN Some(BigEndian8(val[c])) ELSE None)

\* C3: for a pair (a, b) the spans fed are a's span sequence followed by
\* b's: what has been fed is always a prefix of that sequence, and all of
\* it has been fed when the loop is left.
C3_PairOrder ==
    \A c \in Calls :
        val[c].kind = "pair" =>
            /\ IsPrefix(fed[c], Spans(val[c].fst) \o Spans(val[c].snd))
            /\ Ended(c) => fed[c] = Spans(val[c].fst) \o Spans(val[c].snd)

\* C4: two calls on the same unchanged value both complete (neither obtains
\* more spans than the value has scalar fields), are fed the same spans in
\* the same order and return equal digests.
C4_Deterministic ==
    val[1] = val[2] =>
        /\ \A c \in Calls : Len(fed[c]) <= LeafCount(val[c])
        /\ IsPrefix(fed[1], fed[2]) \/ IsPrefix(fed[2], fed[1])
        /\ BothDone => result[1] = result[2]

Swapped ==
    /\ val[1].kind = "pair"
    /\ val[2] = Pair(val[1].snd, val[1].fst)

\* C5 as stated: for a pair (a, b) whose elements' encodings are non-empty
\* and distinct, the digests of (a, b) and (b, a) differ.
C5_OrderSensitive ==
    (/\ BothDone
     /\ Swapped
     /\ ByteStream(val[1].fst) # <<>>
     /\ ByteStream(val[1].snd) # <<>>
     /\ ByteStream(val[1].fst) # ByteStream(val[1].snd))
    => result[1] # result[2]

\* C5 as amended: the digests of (a, b) and (b, a) differ whenever a's bytes
\* followed by b's differ from b's bytes followed by a's.
C5_OrderSensitiveNonCommuting ==
    (/\ BothDone
     /\ Swapped
     /\ ByteStream(val[1].fst) \o ByteStream(val[1].snd)
          # ByteStream(val[1].snd) \o ByteStream(val[1].fst))
    => result[1] # result[2]

C5_Witness ==
    /\ BothDone
    /\ Swapped
    /\ ByteStream(val[1].fst) \o ByteStream(val[1].snd)
         # ByteStream(val[1].snd) \o ByteStream(val[1].fst)
    /\ result[1] # result[2]

Changed(c) ==
    \/ pc'[c] # pc[c]
    \/ iter'[c] # iter[c]
    \/ hasher'[c] # hasher[c]
    \/ result'[c] # result[c]
    \/ fed'[c] # fed[c]

\* C8: interleaved calls do not interfere: a step changes the state of one
\* call only, leaves the values unchanged, and a call that returns returns
\* the digest it produces when it runs alone.
C8_NoInterference ==
    [][ /\ val' = val
        /\ \A c \in Calls, d \in Calls : c # d => ~(Changed(c) /\ Changed(d))
        /\ \A c \in Calls :
              pc'[c] = "done" => result'[c] = FromDigestable(val[c]) ]_vars

C8_Witness ==
    /\ pc[1] = "done"
    /\ pc[2] = "loop"
    /\ val[2].kind = "pair"
    /\ Len(fed[2]) = 1
    /\ hasher[2] # Some(result[1][1].sha256)

\* C9: the span sequence of a text value has exactly one element, its
\* bytes: a call is fed that span and nothing else, and returns the digest
\* of exactly those bytes.
C9_TextSingleSpan ==
    \A c \in Calls :
        val[c].kind = "text" =>
            /\ IsPrefix(fed[c], <<val[c].bytes>>)
            /\ pc[c] = "loop" =>
                  IterNext(iter[c][1]).item =
                      (IF fed[c] = <<>> THEN Some(val[c].bytes) ELSE None)
            /\ Ended(c) => fed[c] = <<val[c].bytes>>
            /\ pc[c] = "done" => result[c] = Some(Sha256Finalize(val[c].bytes))

C9_Witness ==
    /\ pc[1] = "done"
    /\ val[1].kind = "text"
    /\ val[1].bytes # <<>>
    /\ fed[1] = <<val[1].bytes>>

\* C10: the digest depends only on the concatenation of the spans: two
\* values whose spans concatenate to the same bytes have equal digests.
C10_ConcatOnly ==
    (BothDone /\ ByteStream(val[1]) = ByteStream(val[2])) => result[1] = result[2]

C10_Witness ==
    /\ BothDone
    /\ val[1] # val[2]
    /\ Spans(val[1]) # Spans(val[2])
    /\ ByteStream(val[1]) = ByteStream(val[2])
    /\ ByteStream(val[1]) # <<>>
    /\ result[1] = result[2]

\* "0123456789abcdef" and "0123456789ABCDEF"
LowerDigits == <<48, 49, 50, 51, 52, 53, 54, 55, 56, 57, 97, 98, 99, 100, 101, 102>>
UpperDigits == <<48, 49, 50, 51, 52, 53, 54, 55, 56, 57, 65, 66, 67, 68, 69, 70>>
IsHexDigit(c) == \E d \in 1..16 : c = LowerDigits[d] \/ c = UpperDigits[d]
DigitValue(c) == (CHOOSE d \in 1..16 : c = LowerDigits[d] \/ c = UpperDigits[d]) - 1
ValidHex(s) == Len(s) = 2 * DigestLen /\ \A i \in 1..Len(s) : IsHexDigit(s[i])
DecodedPairs(s) == [i \in 1..DigestLen |-> 16 * DigitValue(s[2 * i - 1]) + DigitValue(s[2 * i])]

\* C6: from_str fails exactly when the text is not twice the digest length
\* long or holds a character outside [0-9a-fA-F]; otherwise it returns the
\* digest made of the decoded pairs; on error there is no digest.
C6_FromStrErrorExactly ==
    parsed # None =>
        /\ parsed[1].ok <=> ValidHex(text)
        /\ parsed[1].ok => parsed[1].digest = DecodedPairs(text)
        /\ ~parsed[1].ok => "digest" \notin DOMAIN parsed[1]

C6_Witness ==
    /\ parsed # None
    /\ ~parsed[1].ok
    /\ Len(text) = 2 * DigestLen
    /\ IsHexDigit(text[1])

IsLowerHex(s) ==
    /\ Len(s) = 2 * DigestLen
    /\ \A i \in 1..Len(s) : \E d \in 1..16 : s[i] = LowerDigits[d]

\* C7: for a valid lowercase hex string s, from_str(s) and
\* from_str(uppercase(s)) both succeed with the same bytes.
C7_CaseInsensitive ==
    (hpc = "done" /\ IsLowerHex(text)) =>
        /\ parsed[1].ok
        /\ parsed_upper[1].ok
        /\ parsed[1].digest = parsed_upper[1].digest

C7_Witness ==
    /\ hpc = "done"
    /\ IsLowerHex(text)
    /\ \E i \in 1..Len(text) : text[i] \in 97..102
    /\ parsed[1].ok
    /\ parsed_upper[1].ok

====
